---- MODULE Spec2Model ----
(***************************************************************************)
(* AskUSDA: the WebSocket chat handler (backend/lambda/websocket-handler/   *)
(* index.js, both revisions kept in that file) and the admin API's         *)
(* POST /feedback (backend/lambda/admin-api/index.js).                     *)
(*                                                                         *)
(* Every awaited call of a handler is one step of the invocation that runs *)
(* it; the outcome of the call (the managed service answering or throwing) *)
(* is the step's input.  Relevance scores are kept in hundredths, so the   *)
(* gate 0.8 is 80.                                                         *)
(***************************************************************************)
EXTENDS Integers, Sequences, FiniteSets, TLC

\* ---------------------------------------------------------------- bounds
MaxRequests == 2     \* requests handled in one behaviour
MaxPassages == 2     \* passages the search service returns (the code asks for 5)
MaxClock == 1        \* distinct instants of the server clock after 0

\* ------------------------------------------------------ program constants
Threshold == 80      \* maxConfidence < 0.8

Undefined == 0 - 1   \* a score the service left out (undefined)
RawScores == {Undefined, 79, 80}
Workers == {1, 2}    \* execution environments of the function
Revisions == {"rag", "twostep"}
Cids == {1, 2}       \* conversation identifiers a client can submit; 0 is none

SeqsUpTo(S, n) == UNION {[1..k -> S] : k \in 0..n}
Max(S) == CHOOSE x \in S : \A y \in S : y <= x
Range(s) == {s[i] : i \in 1..Len(s)}

\* ------------------------------------------------------------ the events
\* event.body: absent (JSON.parse(body || '{}') gives {}), text JSON.parse
\* throws on, or a JSON object
EmptyObject ==
  [action |-> "", message |-> "", conversationId |-> 0, feedback |-> "",
   name |-> FALSE, email |-> FALSE, question |-> FALSE, useStreaming |-> TRUE]

ChatBodies ==
  {[EmptyObject EXCEPT !.action = "sendMessage", !.message = m] : m \in {"", "q"}}
FeedbackValues == {"", "positive", "negative", "pos"}
FeedbackBodies ==
  {[EmptyObject EXCEPT !.action = "submitFeedback", !.conversationId = c,
                       !.feedback = f, !.question = TRUE]
     : c \in Cids \cup {0}, f \in FeedbackValues}
EscalationBodies ==
  {[EmptyObject EXCEPT !.action = "submitEscalation", !.name = n, !.email = e,
                       !.question = q] : n \in BOOLEAN, e \in BOOLEAN, q \in BOOLEAN}

Json(route, bodies) == {[route |-> route, json |-> "object", body |-> b] : b \in bodies}
Raw(route, kinds) == {[route |-> route, json |-> k, body |-> EmptyObject] : k \in kinds}
\* frames on the $default route carry the action in the body; the handle*
\* they are dispatched to is the one of the named route
DefaultBodies(bodies) ==
  {b \in bodies : \/ b.action = "sendMessage" /\ b.message = ""
                  \/ b.feedback = "negative" /\ b.conversationId = 1
                  \/ b.name /\ b.email}
ChatEvents ==
  Json("sendMessage", ChatBodies) \cup Json("$default", DefaultBodies(ChatBodies))
    \cup Raw("sendMessage", {"absent", "malformed"})
StoreEvents ==
  Json("submitFeedback", FeedbackBodies)
    \cup Json("$default", DefaultBodies(FeedbackBodies))
    \cup Json("submitEscalation", EscalationBodies)
    \cup Json("$default", DefaultBodies(EscalationBodies))
    \cup Raw("submitFeedback", {"malformed"}) \cup Raw("submitEscalation", {"malformed"})
OtherEvents ==
  Raw("$connect", {"absent"}) \cup Raw("$disconnect", {"absent"})
    \cup Raw("$default", {"absent", "malformed"})
Events == ChatEvents \cup StoreEvents \cup OtherEvents

\* requests to the admin API
AdminRequests == Json("POST /feedback", FeedbackBodies) \cup Raw("POST /feedback", {"malformed"})

\* ------------------------------------------------------------- the state
VARIABLES
  revision,    \* which revision of index.js is deployed
  kb,          \* raw scores of the passages the search service holds for the query
  limit,       \* how many invocations the platform runs at once
  now,         \* the latest reading of the server clock (new Date())
  nreq,        \* requests received so far; uuidv4() of request n is n
  inv,         \* per execution environment: the invocation it runs
  convTable,   \* CONVERSATION_TABLE: <<conversationId, timestamp>> -> item
  escTable,    \* ESCALATION_TABLE: set of items
  putLog,      \* history: the PutCommands the conversation table has accepted
  msgTable     \* CONVERSATION_TABLE of the streaming handler: the items of the
               \* connection, oldest first

vars == <<revision, kb, limit, now, nreq, inv, convTable, escTable, putLog, msgTable>>

NoErr == [name |-> "", message |-> "", from |-> ""]
NoResult == [answer |-> "", citations |-> <<>>, low |-> FALSE]
Idle ==
  [pc |-> "idle", route |-> "", json |-> "", id |-> 0, body |-> EmptyObject,
   guard |-> "", blocked |-> FALSE, text |-> "", result |-> NoResult,
   err |-> NoErr, sent |-> <<>>,
   calls |-> [guardrail |-> 0, retrieve |-> 0, generate |-> 0, put |-> 0],
   wrote |-> FALSE, replaced |-> FALSE, status |-> 0,
   retrieval |-> "", context |-> <<>>, history |-> <<>>, messages |-> <<>>,
   chunks |-> 0, ragCitations |-> <<>>, pathId |-> 0]

EmptyTable == [k \in {} |-> EmptyObject]
Put(table, key, item) ==
  [k \in DOMAIN table \cup {key} |-> IF k = key THEN item ELSE table[k]]


\* --------------------------------------------------- what the client is sent
\* One entry of inv[w].sent is one PostToConnection attempt: the payload as
\* sent and how the call ended.
\* PostToConnection delivers, fails for the moment (429, 413), or answers 410
\* because the connection is gone; a connection that is gone stays gone
Gone(i) == \E n \in 1..Len(i.sent) : i.sent[n].outcome = "gone"
\* the invocations in flight at one time serve the same connection
SendOutcomes(i) ==
  IF \E v \in Workers : Gone(inv[v]) THEN {"gone"} ELSE {"ok", "gone", "failed"}
Payload(type, text) ==
  [type |-> type, text |-> text, detail |-> "", hasCitations |-> FALSE,
   citations |-> <<>>, blocked |-> FALSE, lowConfidence |-> FALSE,
   conversationId |-> 0, escalationId |-> 0, feedback |-> "", outcome |-> "",
   chunk |-> "", isComplete |-> FALSE, status |-> FALSE]
Terminal(e) == e.type \in {"message", "error"}

\* sendToClient: the catch logs, notes a 410 and throws the error again
sendToClient(outcome) == IF outcome = "ok" THEN "returned" ELSE "thrown"
SendError(outcome) ==
  [name |-> IF outcome = "gone" THEN "GoneException" ELSE "Error",
   message |-> "", from |-> "send"]

\* ------------------------------------------------------------ guardrail
GuardOutcomes == {"NONE", "GUARDRAIL_INTERVENED", "INTERVENED_NO_OUTPUT", "throws"}
\* mutant: the intervention is ignored
applyGuardrailsIgnoring(text, outcome) == [blocked |-> FALSE, text |-> text]
\* mutant: a moderation error blocks the message (fail closed)
applyGuardrailsFailClosed(text, outcome) ==
  IF outcome = "NONE" THEN [blocked |-> FALSE, text |-> text]
  ELSE [blocked |-> TRUE, text |-> "I'm sorry, but I can't help with that request."]
\* applyGuardrails(text): GUARDRAIL_ID is set by the stack (backend-stack.ts:280)
applyGuardrails(text, outcome) ==
  CASE outcome = "GUARDRAIL_INTERVENED" -> [blocked |-> TRUE, text |-> "guardrail output"]
    [] outcome = "INTERVENED_NO_OUTPUT" ->
         [blocked |-> TRUE, text |-> "I'm sorry, but I can't help with that request."]
    [] outcome = "NONE" -> [blocked |-> FALSE, text |-> text]
    [] OTHER -> [blocked |-> FALSE, text |-> text]       \* catch: fail open

\* --------------------------------------------------- retrieval and the gate
ErrNames ==
  {"AccessDeniedException", "ResourceNotFoundException", "ValidationException",
   "ThrottlingException", "InternalServerException"}
\* what a managed service throws: error.name and the raw error.message
ServiceErrors(from) ==
  {[name |-> n, message |-> "detail one", from |-> from] : n \in ErrNames}
    \cup {[name |-> n, message |-> "detail two", from |-> from]
            : n \in {"ValidationException", "ThrottlingException"}}

\* mutant: passages scoring under the threshold are dropped
retrieveFromKnowledgeBaseFiltered(raw) ==
  SelectSeq([i \in 1..Len(raw) |-> IF raw[i] = Undefined THEN 0 ELSE raw[i]],
            LAMBDA x : x >= Threshold)
\* retrieveFromKnowledgeBase: score: result.score || 0, order kept
retrieveFromKnowledgeBase(raw) ==
  [i \in 1..Len(raw) |-> IF raw[i] = Undefined THEN 0 ELSE raw[i]]
MaxConfidence(scores) == IF Len(scores) > 0 THEN Max(Range(scores)) ELSE 0
\* mutant: the gate is one hundredth too lenient
LowConfidenceLenient(scores) == MaxConfidence(scores) < Threshold - 1
\* mutant: a maximum of exactly the threshold does not pass
LowConfidenceStrict(scores) == MaxConfidence(scores) <= Threshold
LowConfidence(scores) == MaxConfidence(scores) < Threshold

\* RetrieveAndGenerate (rag revision): a citation carries the references it
\* rests on; its score is the largest defined score among them, else 0
CitationScore(refs) ==
  LET defined == {refs[i] : i \in 1..Len(refs)} \ {Undefined}
  IN IF defined # {} THEN Max(defined) ELSE 0
References(raw) ==
  {<<>>} \cup {SubSeq(raw, i, j) : i \in 1..Len(raw), j \in 1..Len(raw)}
RagCitations(raw) ==
  {[i \in 1..Len(c) |-> CitationScore(c[i])] : c \in SeqsUpTo(References(raw), Len(raw))}

LowConfidenceText == "I'm not very confident about the answer to your question."
\* mutant: the answer and its citations are sent whatever the confidence
ResponsePayloadUngated(rev, result, id) ==
  [Payload("message", result.answer)
     EXCEPT !.hasCitations = TRUE, !.citations = result.citations,
            !.conversationId = id]
\* the message event handleSendMessage assembles from queryKnowledgeBase's result
ResponsePayload(rev, result, id) ==
  LET low == IF rev = "twostep" THEN result.low ELSE LowConfidence(result.citations)
  IN [Payload("message", IF low THEN LowConfidenceText ELSE result.answer)
        EXCEPT !.hasCitations = TRUE,
               !.citations = IF low THEN <<>> ELSE result.citations,
               !.lowConfidence = low,
               !.conversationId = id]

\* mutant: throttling is reported with the generic text
ErrorPayloadThrottlingGeneric(err) ==
  CASE err.name = "AccessDeniedException" ->
         Payload("error", "Access denied. Please check model access permissions.")
    [] err.name = "ResourceNotFoundException" ->
         Payload("error", "Knowledge base not found. Please verify configuration.")
    [] err.name = "ValidationException" ->
         [Payload("error", "Invalid request. ") EXCEPT !.detail = err.message]
    [] OTHER ->
         Payload("error", "An error occurred while processing your request. Please try again.")
\* the catch of handleSendMessage: error.name picks the text
ErrorPayload(err) ==
  CASE err.name = "AccessDeniedException" ->
         Payload("error", "Access denied. Please check model access permissions.")
    [] err.name = "ResourceNotFoundException" ->
         Payload("error", "Knowledge base not found. Please verify configuration.")
    [] err.name = "ValidationException" ->
         [Payload("error", "Invalid request. ") EXCEPT !.detail = err.message]
    [] err.name = "ThrottlingException" ->
         Payload("error", "Service is busy. Please try again in a moment.")
    [] OTHER ->
         Payload("error", "An error occurred while processing your request. Please try again.")

\* ------------------------------------------------------------------ Init
KbOfStore == {<<79>>, <<80, Undefined>>}
InitCommon ==
  /\ revision \in Revisions
  /\ now = 0
  /\ nreq = 0
  /\ inv = [w \in Workers |-> Idle]
  /\ convTable = EmptyTable
  /\ escTable = {}
  /\ putLog = <<>>

\* the whole service, one request at a time
Init ==
  /\ InitCommon
  /\ msgTable = <<>>
  /\ kb \in KbOfStore
  /\ revision = "rag" => kb = <<80, Undefined>>
  /\ limit = 1

\* the chat turn alone, over every content of the knowledge base
InitChat ==
  /\ InitCommon
  /\ msgTable = <<>>
  /\ kb \in SeqsUpTo(RawScores, MaxPassages)
  /\ limit = 1

\* ------------------------------------------------------- steps of a handler
Step(w, pc, fields) == inv' = [inv EXCEPT ![w] = [fields EXCEPT !.pc = pc]]
Log(i, payload, outcome) ==
  [i EXCEPT !.sent = Append(@, [payload EXCEPT !.outcome = outcome])]
\* the handler returns: statusCode 200 after a handle* that returned, 500 from
\* the catch of exports.handler
Returned(w, i) == Step(w, "return", [i EXCEPT !.status = 200])
Escaped(w, i) == Step(w, "return", [i EXCEPT !.status = 500])
InFlight == {w \in Workers : inv[w].pc # "idle"}


\* ------------------------------------------------------- exports.handler
\* the switch on routeKey, JSON.parse(body || '{}'), and the checks each
\* handle* makes before its first await
\* mutant: the message is not checked before the typing indicator
EntryUnchecked(ev) ==
  LET action == IF ev.route = "$default" THEN ev.body.action ELSE ev.route
      b == ev.body
  IN CASE ev.route \in {"$connect", "$disconnect"} -> "return"
       [] ev.json = "malformed" -> "threw"
       [] action = "sendMessage" -> "typing"
       [] action = "submitFeedback" ->
            IF b.conversationId = 0 \/ b.feedback = "" THEN "fbRequired" ELSE "fbPut"
       [] action = "submitEscalation" ->
            IF ~b.name \/ ~b.email \/ ~b.question THEN "escRequired" ELSE "escPut"
       [] OTHER -> "unknown"
\* mutant: a body that does not parse is taken as the empty object
EntryParseLenient(ev) ==
  LET action == IF ev.route = "$default" THEN ev.body.action ELSE ev.route
      b == ev.body
  IN CASE ev.route \in {"$connect", "$disconnect"} -> "return"
       [] action = "sendMessage" -> IF b.message = "" THEN "required" ELSE "typing"
       [] action = "submitFeedback" ->
            IF b.conversationId = 0 \/ b.feedback = "" THEN "fbRequired" ELSE "fbPut"
       [] action = "submitEscalation" ->
            IF ~b.name \/ ~b.email \/ ~b.question THEN "escRequired" ELSE "escPut"
       [] OTHER -> "unknown"
Entry(ev) ==
  LET action == IF ev.route = "$default" THEN ev.body.action ELSE ev.route
      b == ev.body
  IN CASE ev.route \in {"$connect", "$disconnect"} -> "return"
       [] ev.json = "malformed" -> "threw"
       [] action = "sendMessage" -> IF b.message = "" THEN "required" ELSE "typing"
       [] action = "submitFeedback" ->
            IF b.conversationId = 0 \/ b.feedback = "" THEN "fbRequired" ELSE "fbPut"
       [] action = "submitEscalation" ->
            IF ~b.name \/ ~b.email \/ ~b.question THEN "escRequired" ELSE "escPut"
       [] OTHER -> "unknown"

Handler(w, ev) ==
  /\ inv[w].pc = "idle"
  /\ \A v \in Workers : v < w => inv[v].pc # "idle"
  /\ Cardinality(InFlight) < limit
  /\ nreq < MaxRequests
  /\ nreq' = nreq + 1
  /\ LET i == [Idle EXCEPT !.route = ev.route, !.json = ev.json, !.body = ev.body,
                           !.id = nreq + 1]
     IN IF Entry(ev) = "threw" THEN Escaped(w, i)
        ELSE IF Entry(ev) = "return" THEN Returned(w, i)
        ELSE Step(w, Entry(ev), i)
  /\ UNCHANGED <<revision, kb, limit, now, convTable, escTable, putLog, msgTable>>

\* the invocation ends; its execution environment is free again
Return(w) ==
  /\ inv[w].pc = "return"
  /\ inv' = [inv EXCEPT ![w] = Idle]
  /\ UNCHANGED <<revision, kb, limit, now, nreq, convTable, escTable, putLog, msgTable>>

\* new Date(): a reading of the server clock, no earlier than the last one
Clock == now..MaxClock

\* ----------------------------------------------------- handleSendMessage
\* if (!message): the error event, then return
SendMessageRequired(w) ==
  /\ inv[w].pc = "required"
  /\ \E o \in SendOutcomes(inv[w]) :
       LET i == Log(inv[w], Payload("error", "Message is required"), o)
       IN IF sendToClient(o) = "returned" THEN Returned(w, i) ELSE Escaped(w, i)
  /\ UNCHANGED <<revision, kb, limit, now, nreq, convTable, escTable, putLog, msgTable>>

\* mutant: no typing indicator is sent
SendTypingSkipped(w) ==
  /\ inv[w].pc = "typing"
  /\ Step(w, "guard", inv[w])
  /\ UNCHANGED <<revision, kb, limit, now, nreq, convTable, escTable, putLog, msgTable>>

\* the typing indicator, sent before the try
SendTyping(w) ==
  /\ inv[w].pc = "typing"
  /\ \E o \in SendOutcomes(inv[w]) :
       LET i == Log(inv[w], Payload("typing", ""), o)
       IN IF sendToClient(o) = "returned" THEN Step(w, "guard", i) ELSE Escaped(w, i)
  /\ UNCHANGED <<revision, kb, limit, now, nreq, convTable, escTable, putLog, msgTable>>

ApplyGuardrails(w) ==
  /\ inv[w].pc = "guard"
  /\ \E o \in GuardOutcomes :
       LET g == applyGuardrails(inv[w].body.message, o)
           i == [inv[w] EXCEPT !.guard = o, !.blocked = g.blocked, !.text = g.text,
                               !.calls.guardrail = @ + 1]
       IN Step(w, IF g.blocked THEN "blocked" ELSE "query", i)
  /\ UNCHANGED <<revision, kb, limit, now, nreq, convTable, escTable, putLog, msgTable>>

\* mutant: the blocked exchange is persisted
SendBlockedSaving(w) ==
  /\ inv[w].pc = "blocked"
  /\ \E o \in SendOutcomes(inv[w]) :
       LET i == Log(inv[w], [Payload("message", inv[w].text) EXCEPT !.blocked = TRUE], o)
       IN IF sendToClient(o) = "returned" THEN Returned(w, i)
          ELSE Step(w, "catch", [i EXCEPT !.err = SendError(o)])
  /\ convTable' =
       Put(convTable, <<inv[w].id, now>>,
           [conversationId |-> inv[w].id, timestamp |-> now, question |-> TRUE,
            feedback |-> "neg", feedbackTs |-> now])
  /\ UNCHANGED <<revision, kb, limit, now, nreq, escTable, putLog, msgTable>>

\* the blocked notice, then return
SendBlocked(w) ==
  /\ inv[w].pc = "blocked"
  /\ \E o \in SendOutcomes(inv[w]) :
       LET i == Log(inv[w], [Payload("message", inv[w].text) EXCEPT !.blocked = TRUE], o)
       IN IF sendToClient(o) = "returned" THEN Returned(w, i)
          ELSE Step(w, "catch", [i EXCEPT !.err = SendError(o)])
  /\ UNCHANGED <<revision, kb, limit, now, nreq, convTable, escTable, putLog, msgTable>>

\* queryKnowledgeBase, two-step revision, step 1 and the confidence check
Retrieve(w) ==
  /\ inv[w].pc = "query"
  /\ revision = "twostep"
  /\ LET i == [inv[w] EXCEPT !.calls.retrieve = @ + 1]
     IN \/ \E e \in ServiceErrors("retrieve") : Step(w, "catch", [i EXCEPT !.err = e])
        \/ LET results == retrieveFromKnowledgeBase(kb)
               low == LowConfidence(results)
               r == [answer |-> "", citations |-> results, low |-> low]
           IN Step(w, IF low THEN "respond" ELSE "generate", [i EXCEPT !.result = r])
  /\ UNCHANGED <<revision, kb, limit, now, nreq, convTable, escTable, putLog, msgTable>>

\* queryKnowledgeBase, two-step revision, step 2: generateAnswer
GenerateAnswer(w) ==
  /\ inv[w].pc = "generate"
  /\ LET i == [inv[w] EXCEPT !.calls.generate = @ + 1]
     IN \/ \E e \in ServiceErrors("generate") : Step(w, "catch", [i EXCEPT !.err = e])
        \/ \E a \in {"generated answer", "I couldn't generate a response. Please try again."} :
             Step(w, "respond", [i EXCEPT !.result.answer = a])
  /\ UNCHANGED <<revision, kb, limit, now, nreq, convTable, escTable, putLog, msgTable>>

\* queryKnowledgeBase, rag revision: one RetrieveAndGenerate call
RetrieveAndGenerate(w) ==
  /\ inv[w].pc = "query"
  /\ revision = "rag"
  /\ LET i == [inv[w] EXCEPT !.calls.retrieve = @ + 1, !.calls.generate = @ + 1]
     IN \/ \E e \in ServiceErrors("generate") : Step(w, "catch", [i EXCEPT !.err = e])
        \/ \E c \in RagCitations(kb),
              a \in {"generated answer", "I couldn't find relevant information about that topic."} :
             Step(w, "respond",
                  [i EXCEPT !.result = [answer |-> a, citations |-> c, low |-> FALSE]])
  /\ UNCHANGED <<revision, kb, limit, now, nreq, convTable, escTable, putLog, msgTable>>

\* mutant: the exchange is persisted when it is answered
RespondSaving(w) ==
  /\ inv[w].pc = "respond"
  /\ \E o \in SendOutcomes(inv[w]) :
       LET i == Log(inv[w], ResponsePayload(revision, inv[w].result, inv[w].id), o)
       IN IF sendToClient(o) = "returned" THEN Returned(w, i)
          ELSE Step(w, "catch", [i EXCEPT !.err = SendError(o)])
  /\ convTable' =
       Put(convTable, <<inv[w].id, now>>,
           [conversationId |-> inv[w].id, timestamp |-> now, question |-> TRUE,
            feedback |-> "", feedbackTs |-> now])
  /\ UNCHANGED <<revision, kb, limit, now, nreq, escTable, putLog, msgTable>>

\* mutant: responses are released in the order the requests arrived
RespondInOrder(w) ==
  /\ inv[w].pc = "respond"
  /\ \A v \in Workers : inv[v].pc \in {"idle", "return"} \/ inv[v].id >= inv[w].id
  /\ \E o \in SendOutcomes(inv[w]) :
       LET i == Log(inv[w], ResponsePayload(revision, inv[w].result, inv[w].id), o)
       IN IF sendToClient(o) = "returned" THEN Returned(w, i)
          ELSE Step(w, "catch", [i EXCEPT !.err = SendError(o)])
  /\ UNCHANGED <<revision, kb, limit, now, nreq, convTable, escTable, putLog, msgTable>>

\* the message event: the low-confidence notice or the answer
Respond(w) ==
  /\ inv[w].pc = "respond"
  /\ \E o \in SendOutcomes(inv[w]) :
       LET i == Log(inv[w], ResponsePayload(revision, inv[w].result, inv[w].id), o)
       IN IF sendToClient(o) = "returned" THEN Returned(w, i)
          ELSE Step(w, "catch", [i EXCEPT !.err = SendError(o)])
  /\ UNCHANGED <<revision, kb, limit, now, nreq, convTable, escTable, putLog, msgTable>>

\* mutant: the catch tries the knowledge base once more before giving up
SendErrorEventRetrying(w) ==
  /\ inv[w].pc = "catch"
  /\ IF inv[w].calls.retrieve = 1 /\ inv[w].err.from # "send"
     THEN Step(w, "query", [inv[w] EXCEPT !.err = NoErr])
     ELSE \E o \in SendOutcomes(inv[w]) :
            LET i == Log(inv[w], ErrorPayload(inv[w].err), o)
            IN IF sendToClient(o) = "returned" THEN Returned(w, i) ELSE Escaped(w, i)
  /\ UNCHANGED <<revision, kb, limit, now, nreq, convTable, escTable, putLog, msgTable>>

\* the catch of handleSendMessage: the error event
SendErrorEvent(w) ==
  /\ inv[w].pc = "catch"
  /\ \E o \in SendOutcomes(inv[w]) :
       LET i == Log(inv[w], ErrorPayload(inv[w].err), o)
       IN IF sendToClient(o) = "returned" THEN Returned(w, i) ELSE Escaped(w, i)
  /\ UNCHANGED <<revision, kb, limit, now, nreq, convTable, escTable, putLog, msgTable>>

\* --------------------------------------------------- handleSubmitFeedback
\* mutant: the feedback is stored as submitted
FeedbackItemRaw(body, ts) ==
  [conversationId |-> body.conversationId, timestamp |-> ts,
   question |-> body.question, feedback |-> body.feedback, feedbackTs |-> ts]
\* the Item of the PutCommand; timestamp is the server's clock at the write
FeedbackItem(body, ts) ==
  [conversationId |-> body.conversationId, timestamp |-> ts,
   question |-> body.question,
   feedback |-> IF body.feedback = "positive" THEN "pos" ELSE "neg",
   feedbackTs |-> ts]

SendFeedbackRequired(w) ==
  /\ inv[w].pc = "fbRequired"
  /\ \E o \in SendOutcomes(inv[w]) :
       LET i == Log(inv[w], Payload("error", "conversationId and feedback are required"), o)
       IN IF sendToClient(o) = "returned" THEN Returned(w, i) ELSE Escaped(w, i)
  /\ UNCHANGED <<revision, kb, limit, now, nreq, convTable, escTable, putLog, msgTable>>

\* mutant: the conversation alone is the key
FeedbackKeyIdOnly(body, ts) == <<body.conversationId, 0>>
\* the key of the conversation table: conversationId (PK), timestamp (SK)
FeedbackKey(body, ts) == <<body.conversationId, ts>>

\* mutant: the confirmation is sent whether or not the write succeeded
PutFeedbackOptimistic(w) ==
  /\ inv[w].pc = "fbPut"
  /\ \E timestamp \in Clock :
       LET i == [inv[w] EXCEPT !.calls.put = @ + 1]
           key == FeedbackKey(inv[w].body, timestamp)
       IN /\ now' = timestamp
          /\ \/ /\ Step(w, "fbConfirm",
                        [i EXCEPT !.err = [name |-> "Error", message |-> "", from |-> "put"]])
                /\ UNCHANGED <<convTable, putLog>>
             \/ /\ convTable' = Put(convTable, key, FeedbackItem(inv[w].body, timestamp))
                /\ putLog' = Append(putLog, [request |-> inv[w].body, timestamp |-> timestamp])
                /\ Step(w, "fbConfirm",
                        [i EXCEPT !.wrote = TRUE, !.replaced = key \in DOMAIN convTable])
  /\ UNCHANGED <<revision, kb, limit, nreq, escTable, msgTable>>

\* mutant: the write is refused unless an earlier request was given that id
PutFeedbackIssuedOnly(w) ==
  /\ inv[w].pc = "fbPut"
  /\ \E timestamp \in Clock :
       LET i == [inv[w] EXCEPT !.calls.put = @ + 1]
           key == FeedbackKey(inv[w].body, timestamp)
       IN /\ now' = timestamp
          /\ \/ /\ Step(w, "fbCatch",
                        [i EXCEPT !.err = [name |-> "Error", message |-> "", from |-> "put"]])
                /\ UNCHANGED <<convTable, putLog>>
             \/ /\ inv[w].body.conversationId >= inv[w].id
                /\ Step(w, "fbCatch",
                        [i EXCEPT !.err = [name |-> "Error", message |-> "", from |-> "check"]])
                /\ UNCHANGED <<convTable, putLog>>
             \/ /\ inv[w].body.conversationId < inv[w].id
                /\ convTable' = Put(convTable, key, FeedbackItem(inv[w].body, timestamp))
                /\ putLog' = Append(putLog, [request |-> inv[w].body, timestamp |-> timestamp])
                /\ Step(w, "fbConfirm",
                        [i EXCEPT !.wrote = TRUE, !.replaced = key \in DOMAIN convTable])
  /\ UNCHANGED <<revision, kb, limit, nreq, escTable, msgTable>>

PutFeedback(w) ==
  /\ inv[w].pc = "fbPut"
  /\ \E timestamp \in Clock :
       LET i == [inv[w] EXCEPT !.calls.put = @ + 1]
           key == FeedbackKey(inv[w].body, timestamp)
       IN /\ now' = timestamp
          /\ \/ /\ Step(w, "fbCatch",
                        [i EXCEPT !.err = [name |-> "Error", message |-> "", from |-> "put"]])
                /\ UNCHANGED <<convTable, putLog>>
             \/ /\ convTable' = Put(convTable, key, FeedbackItem(inv[w].body, timestamp))
                /\ putLog' = Append(putLog, [request |-> inv[w].body, timestamp |-> timestamp])
                /\ Step(w, "fbConfirm",
                        [i EXCEPT !.wrote = TRUE, !.replaced = key \in DOMAIN convTable])
  /\ UNCHANGED <<revision, kb, limit, nreq, escTable, msgTable>>

SendFeedbackConfirmation(w) ==
  /\ inv[w].pc = "fbConfirm"
  /\ \E o \in SendOutcomes(inv[w]) :
       LET i == Log(inv[w],
                    [Payload("feedbackConfirmation", "") EXCEPT
                       !.conversationId = inv[w].body.conversationId,
                       !.feedback = inv[w].body.feedback], o)
       IN IF sendToClient(o) = "returned" THEN Returned(w, i)
          ELSE Step(w, "fbCatch", [i EXCEPT !.err = SendError(o)])
  /\ UNCHANGED <<revision, kb, limit, now, nreq, convTable, escTable, putLog, msgTable>>

SendFeedbackFailed(w) ==
  /\ inv[w].pc = "fbCatch"
  /\ \E o \in SendOutcomes(inv[w]) :
       LET i == Log(inv[w], Payload("error", "Failed to save feedback"), o)
       IN IF sendToClient(o) = "returned" THEN Returned(w, i) ELSE Escaped(w, i)
  /\ UNCHANGED <<revision, kb, limit, now, nreq, convTable, escTable, putLog, msgTable>>

\* ------------------------------------------------- handleSubmitEscalation
SendEscalationRequired(w) ==
  /\ inv[w].pc = "escRequired"
  /\ \E o \in SendOutcomes(inv[w]) :
       LET i == Log(inv[w], Payload("error", "Name, email, and question are required"), o)
       IN IF sendToClient(o) = "returned" THEN Returned(w, i) ELSE Escaped(w, i)
  /\ UNCHANGED <<revision, kb, limit, now, nreq, convTable, escTable, putLog, msgTable>>

\* saveEscalation: escalationId = uuidv4(), status 'pending'
SaveEscalation(w) ==
  /\ inv[w].pc = "escPut"
  /\ \E timestamp \in Clock :
       LET i == [inv[w] EXCEPT !.calls.put = @ + 1]
       IN /\ now' = timestamp
          /\ \/ /\ Step(w, "escCatch",
                        [i EXCEPT !.err = [name |-> "Error", message |-> "", from |-> "put"]])
                /\ UNCHANGED escTable
             \/ /\ escTable' = escTable \cup
                     {[escalationId |-> inv[w].id, timestamp |-> timestamp,
                       status |-> "pending"]}
                /\ Step(w, "escConfirm", [i EXCEPT !.wrote = TRUE])
  /\ UNCHANGED <<revision, kb, limit, nreq, convTable, putLog, msgTable>>

\* mutant: the confirmation carries no escalationId
SendEscalationConfirmationAnonymous(w) ==
  /\ inv[w].pc = "escConfirm"
  /\ \E o \in SendOutcomes(inv[w]) :
       LET i == Log(inv[w], Payload("escalationConfirmation", ""), o)
       IN IF sendToClient(o) = "returned" THEN Returned(w, i)
          ELSE Step(w, "escCatch", [i EXCEPT !.err = SendError(o)])
  /\ UNCHANGED <<revision, kb, limit, now, nreq, convTable, escTable, putLog, msgTable>>

SendEscalationConfirmation(w) ==
  /\ inv[w].pc = "escConfirm"
  /\ \E o \in SendOutcomes(inv[w]) :
       LET i == Log(inv[w],
                    [Payload("escalationConfirmation", "") EXCEPT
                       !.escalationId = inv[w].id], o)
       IN IF sendToClient(o) = "returned" THEN Returned(w, i)
          ELSE Step(w, "escCatch", [i EXCEPT !.err = SendError(o)])
  /\ UNCHANGED <<revision, kb, limit, now, nreq, convTable, escTable, putLog, msgTable>>

SendEscalationFailed(w) ==
  /\ inv[w].pc = "escCatch"
  /\ \E o \in SendOutcomes(inv[w]) :
       LET i == Log(inv[w], Payload("error", "Failed to submit support request"), o)
       IN IF sendToClient(o) = "returned" THEN Returned(w, i) ELSE Escaped(w, i)
  /\ UNCHANGED <<revision, kb, limit, now, nreq, convTable, escTable, putLog, msgTable>>

\* $default with no known action: the error event
SendUnknownAction(w) ==
  /\ inv[w].pc = "unknown"
  /\ \E o \in SendOutcomes(inv[w]) :
       LET i == Log(inv[w], Payload("error", "Unknown action"), o)
       IN IF sendToClient(o) = "returned" THEN Returned(w, i) ELSE Escaped(w, i)
  /\ UNCHANGED <<revision, kb, limit, now, nreq, convTable, escTable, putLog, msgTable>>

\* ------------------------------------------ admin API: POST /feedback
\* Query with Limit 1 returns the item of the conversation with the least
\* timestamp; the UpdateCommand sets feedback and feedbackTs on it.
FirstItem(table, cid) ==
  LET keys == {k \in DOMAIN table : k[1] = cid}
  IN CHOOSE k \in keys : \A j \in keys : k[2] <= j[2]
AdminOutcomes == {"ok", "throws"}
\* mutant: the record is put anew instead of updated
createFeedbackRewrite(table, body, ts, outcome) ==
  IF body.conversationId = 0 \/ body.feedback = ""
    THEN [status |-> 400, table |-> table]
  ELSE IF outcome = "throws" THEN [status |-> 500, table |-> table]
  ELSE IF \A k \in DOMAIN table : k[1] # body.conversationId
    THEN [status |-> 404, table |-> table]
  ELSE [status |-> 200,
        table |-> [table EXCEPT ![FirstItem(table, body.conversationId)] =
                                  FeedbackItem(body, ts)]]
createFeedback(table, body, ts, outcome) ==
  IF body.conversationId = 0 \/ body.feedback = ""
    THEN [status |-> 400, table |-> table]
  ELSE IF outcome = "throws" THEN [status |-> 500, table |-> table]
  ELSE IF \A k \in DOMAIN table : k[1] # body.conversationId
    THEN [status |-> 404, table |-> table]
  ELSE LET k == FirstItem(table, body.conversationId)
       IN [status |-> 200,
           table |-> [table EXCEPT ![k].feedback =
                                     IF body.feedback = "positive" THEN "pos" ELSE "neg",
                                   ![k].feedbackTs = ts]]

\* exports.handler of the admin API, POST /feedback: one invocation, taken whole
CreateFeedback(w, req) ==
  /\ inv[w].pc = "idle"
  /\ \A v \in Workers : v < w => inv[v].pc # "idle"
  /\ Cardinality(InFlight) < limit
  /\ nreq < MaxRequests
  /\ nreq' = nreq + 1
  /\ \E o \in AdminOutcomes, timestamp \in Clock :
       LET r == IF req.json = "malformed" THEN [status |-> 500, table |-> convTable]
                ELSE createFeedback(convTable, req.body, timestamp, o)
           i == [Idle EXCEPT !.route = req.route, !.json = req.json, !.body = req.body,
                             !.id = nreq + 1, !.wrote = r.table # convTable]
       IN /\ convTable' = r.table
          /\ now' = IF r.status = 200 THEN timestamp ELSE now
          /\ Step(w, "return", [i EXCEPT !.status = r.status])
  /\ UNCHANGED <<revision, kb, limit, escTable, putLog, msgTable>>

\* ------------------------------- admin API: DELETE /escalations/{id}
\* deleteEscalation: a Scan for the item of that escalationId, then a
\* DeleteCommand on its key; the catch turns every error into success: false
DeleteOutcomes == {"ok", "scanThrows", "deleteThrows"}
deleteEscalation(table, escalationId, outcome) ==
  LET items == {r \in table : r.escalationId = escalationId}
  IN IF outcome = "scanThrows" THEN [success |-> FALSE, table |-> table]
     ELSE IF items = {} THEN [success |-> FALSE, table |-> table]
     ELSE IF outcome = "deleteThrows" THEN [success |-> FALSE, table |-> table]
     ELSE [success |-> TRUE, table |-> table \ {CHOOSE r \in items : TRUE}]
\* the store call of deleteEscalation that threw, if one did
DeleteError(table, escalationId, outcome) ==
  CASE outcome = "scanThrows" -> [name |-> "Error", message |-> "", from |-> "scan"]
    [] outcome = "deleteThrows" /\ \E r \in table : r.escalationId = escalationId ->
         [name |-> "Error", message |-> "", from |-> "delete"]
    [] OTHER -> NoErr

\* exports.handler of the admin API, DELETE /escalations/{id}: one invocation,
\* taken whole; response(result.success ? 200 : 404, result)
DeleteEscalation(w, escalationId) ==
  /\ inv[w].pc = "idle"
  /\ \A v \in Workers : v < w => inv[v].pc # "idle"
  /\ Cardinality(InFlight) < limit
  /\ nreq < MaxRequests
  /\ nreq' = nreq + 1
  /\ \E o \in DeleteOutcomes :
       LET r == deleteEscalation(escTable, escalationId, o)
           i == [Idle EXCEPT !.route = "DELETE /escalations/{id}", !.id = nreq + 1,
                             !.pathId = escalationId,
                             !.err = DeleteError(escTable, escalationId, o),
                             !.wrote = r.table # escTable]
       IN /\ escTable' = r.table
          /\ Step(w, "return", [i EXCEPT !.status = IF r.success THEN 200 ELSE 404])
  /\ UNCHANGED <<revision, kb, limit, now, convTable, putLog, msgTable>>

NextChat ==
  \/ \E w \in Workers, ev \in ChatEvents : Handler(w, ev)
  \/ \E w \in Workers : SendMessageRequired(w)
  \/ \E w \in Workers : SendTyping(w)
  \/ \E w \in Workers : ApplyGuardrails(w)
  \/ \E w \in Workers : SendBlocked(w)
  \/ \E w \in Workers : Retrieve(w)
  \/ \E w \in Workers : GenerateAnswer(w)
  \/ \E w \in Workers : RetrieveAndGenerate(w)
  \/ \E w \in Workers : Respond(w)
  \/ \E w \in Workers : SendErrorEvent(w)
  \/ \E w \in Workers : Return(w)

SpecChat == InitChat /\ [][NextChat]_vars

\* the next step of handleSendMessage in environment w
SendMessageStep(w) ==
  \/ SendMessageRequired(w) \/ SendTyping(w) \/ ApplyGuardrails(w)
  \/ SendBlocked(w) \/ Retrieve(w) \/ GenerateAnswer(w) \/ RetrieveAndGenerate(w)
  \/ Respond(w) \/ SendErrorEvent(w)
\* every awaited call of a running invocation returns or throws in the end
SpecChatFair == SpecChat /\ \A w \in Workers : WF_vars(SendMessageStep(w))

Next ==
  \/ \E w \in Workers, ev \in Events : Handler(w, ev)
  \/ \E w \in Workers : SendMessageRequired(w)
  \/ \E w \in Workers : SendTyping(w)
  \/ \E w \in Workers : ApplyGuardrails(w)
  \/ \E w \in Workers : SendBlocked(w)
  \/ \E w \in Workers : Retrieve(w)
  \/ \E w \in Workers : GenerateAnswer(w)
  \/ \E w \in Workers : RetrieveAndGenerate(w)
  \/ \E w \in Workers : Respond(w)
  \/ \E w \in Workers : SendErrorEvent(w)
  \/ \E w \in Workers : SendFeedbackRequired(w)
  \/ \E w \in Workers : PutFeedback(w)
  \/ \E w \in Workers : SendFeedbackConfirmation(w)
  \/ \E w \in Workers : SendFeedbackFailed(w)
  \/ \E w \in Workers : SendEscalationRequired(w)
  \/ \E w \in Workers : SaveEscalation(w)
  \/ \E w \in Workers : SendEscalationConfirmation(w)
  \/ \E w \in Workers : SendEscalationFailed(w)
  \/ \E w \in Workers : SendUnknownAction(w)
  \/ \E w \in Workers : Return(w)
  \/ \E w \in Workers, req \in AdminRequests : CreateFeedback(w, req)

Spec == Init /\ [][Next]_vars

\* the escalations: submitEscalation frames and the admin's deletions, one
\* request at a time
InitAdmin ==
  /\ InitCommon
  /\ msgTable = <<>>
  /\ revision = "twostep"
  /\ kb = <<80>>
  /\ limit = 1

NextAdmin ==
  \/ \E w \in Workers, ev \in Json("submitEscalation", EscalationBodies) : Handler(w, ev)
  \/ \E w \in Workers : SendEscalationRequired(w)
  \/ \E w \in Workers : SaveEscalation(w)
  \/ \E w \in Workers : SendEscalationConfirmation(w)
  \/ \E w \in Workers : SendEscalationFailed(w)
  \/ \E w \in Workers, id \in 1..MaxRequests : DeleteEscalation(w, id)
  \/ \E w \in Workers : Return(w)

SpecAdmin == InitAdmin /\ [][NextAdmin]_vars

\* two chat turns at once: the platform starts a second invocation while the
\* first is still running (two-step revision, a passage that passes the gate)
InitConcurrent ==
  /\ InitCommon
  /\ msgTable = <<>>
  /\ revision = "twostep"
  /\ kb = <<80>>
  /\ limit = 2

NextConcurrent ==
  \/ \E w \in Workers, ev \in Json("sendMessage", ChatBodies) : Handler(w, ev)
  \/ \E w \in Workers : SendMessageRequired(w)
  \/ \E w \in Workers : SendTyping(w)
  \/ \E w \in Workers : ApplyGuardrails(w)
  \/ \E w \in Workers : SendBlocked(w)
  \/ \E w \in Workers : Retrieve(w)
  \/ \E w \in Workers : GenerateAnswer(w)
  \/ \E w \in Workers : Respond(w)
  \/ \E w \in Workers : SendErrorEvent(w)
  \/ \E w \in Workers : Return(w)

SpecConcurrent == InitConcurrent /\ [][NextConcurrent]_vars

\* ------------------------------------- the streaming handler (part_000)
MaxTurns == 1          \* invocations of the streaming handler in one behaviour
MaxChunks == 2         \* text fragments one model stream yields, at most
MaxPrior == 10          \* items of earlier turns the table may hold at the start
HistoryLimit == 10     \* getConversationHistory(connectionId, limit = 10)
HistoryWindow == 6     \* conversationHistory.slice(-6)
CitationFloor == 50    \* formatCitations: result.score > 0.5
ContextFloor == 30     \* buildContextFromRetrieval: result.score > 0.3

\* message.trim()
Trim(m) == IF m = " " THEN "" ELSE m
StreamBodies ==
  {[EmptyObject EXCEPT !.action = "sendMessage", !.message = m, !.useStreaming = u]
     : m \in {"", " ", "q"}, u \in BOOLEAN}
StreamEvents ==
  Json("sendMessage", StreamBodies)
    \cup Json("$default", {b \in StreamBodies : b.message = "q" /\ b.useStreaming})
    \cup Raw("sendMessage", {"absent", "malformed"})
    \cup Raw("$connect", {"absent"}) \cup Raw("$disconnect", {"absent"})
    \cup Raw("submitFeedback", {"absent"})

\* sendToClient: true when delivered, false when the connection is stale
\* (410 / GoneException), any other error is thrown again
sendToClientStream(outcome) ==
  CASE outcome = "ok" -> "true" [] outcome = "gone" -> "false" [] OTHER -> "thrown"
\* streamToClient(connectionId, chunk, isComplete)
StreamPayload(chunk, isComplete) ==
  [Payload("stream", "") EXCEPT !.chunk = chunk, !.isComplete = isComplete]
TypingPayload(status) == [Payload("typing", "") EXCEPT !.status = status]

\* new Date().toISOString() of a save: the millisecond of the newest item when
\* that item was written at the last reading, or a later millisecond (the next
\* stands for all later ones: timestamps count by their order alone)
StreamClock ==
  IF msgTable # <<>> /\ msgTable[Len(msgTable)].timestamp = now
  THEN {now, now + 1}
  ELSE {now + 1}
\* the Item of saveConnection / saveMessage; connectionId is the one connection
Item(timestamp, role, content, blocked, citations) ==
  [timestamp |-> timestamp, role |-> role, content |-> content, blocked |-> blocked,
   citations |-> citations]
\* PutCommand on the key (connectionId, timestamp): an item of the same
\* timestamp is replaced
PutItem(table, item) ==
  IF table # <<>> /\ table[Len(table)].timestamp = item.timestamp
  THEN [table EXCEPT ![Len(table)] = item]
  ELSE Append(table, item)
\* what earlier turns left in the table: user and assistant items in turn
PriorTurns(n) ==
  [k \in 1..n |-> Item(k - n - 1, IF k % 2 = 1 THEN "user" ELSE "assistant",
                       ToString(k), FALSE, <<>>)]

LastN(s, n) == IF Len(s) <= n THEN s ELSE SubSeq(s, Len(s) - n + 1, Len(s))
\* getConversationHistory: the newest `limit` items, those of role user or
\* assistant, oldest first, as Converse messages
getConversationHistory(table) ==
  LET items == SelectSeq(LastN(table, HistoryLimit),
                         LAMBDA it : it.role \in {"user", "assistant"})
  IN [k \in 1..Len(items) |-> [role |-> items[k].role, content |-> items[k].content]]
\* generateStreamingResponse: messages
ConverseMessages(history, userMessage) ==
  Append(LastN(history, HistoryWindow), [role |-> "user", content |-> userMessage])

\* applyGuardrail(text, source)
applyGuardrail(text, outcome) ==
  CASE outcome = "GUARDRAIL_INTERVENED" -> [blocked |-> TRUE, text |-> "guardrail output"]
    [] outcome = "INTERVENED_NO_OUTPUT" ->
         [blocked |-> TRUE,
          text |-> "I cannot process this request due to content policy restrictions."]
    [] OTHER -> [blocked |-> FALSE, text |-> text]       \* also the catch: fail open
\* formatCitations: the passages scoring above 0.5, numbered from 1
formatCitations(retrievalResults) ==
  LET kept == SelectSeq(retrievalResults, LAMBDA x : x # Undefined /\ x > CitationFloor)
  IN [k \in 1..Len(kept) |-> [id |-> k, score |-> kept[k]]]
\* buildContextFromRetrieval: '' unless a passage scores above 0.3
buildContextFromRetrieval(retrievalResults) ==
  SelectSeq(retrievalResults, LAMBDA x : x # Undefined /\ x > ContextFloor)

\* the promise of handle* is returned without await: a rejection is not caught
\* by the try of exports.handler and the invocation fails
Rejected(w, i) == Step(w, "return", [i EXCEPT !.status = 502])
Status(w, i, code) == Step(w, "return", [i EXCEPT !.status = code])

\* exports.handler and the checks of handleSendMessage before its try
StreamEntry(ev) ==
  CASE ev.route = "$connect" -> "sConnect"
    [] ev.route = "$disconnect" -> "return"
    [] ev.route \in {"sendMessage", "$default"} ->
         IF ev.json = "malformed" THEN "sInvalidJson"
         ELSE IF ev.json = "absent" \/ Trim(ev.body.message) = "" THEN "sRequired"
         ELSE "sGuardInput"
    [] OTHER -> "unknownRoute"

StreamHandler(w, ev) ==
  /\ inv[w].pc = "idle"
  /\ \A v \in Workers : v < w => inv[v].pc # "idle"
  /\ Cardinality(InFlight) < limit
  /\ nreq < MaxTurns
  /\ nreq' = nreq + 1
  /\ LET i == [Idle EXCEPT !.route = ev.route, !.json = ev.json, !.body = ev.body,
                           !.id = nreq + 1]
     IN CASE StreamEntry(ev) = "return" -> Status(w, i, 200)
          [] StreamEntry(ev) = "unknownRoute" -> Status(w, i, 400)
          [] OTHER -> Step(w, StreamEntry(ev), i)
  /\ UNCHANGED <<revision, kb, limit, now, convTable, escTable, putLog, msgTable>>

\* handleConnect: saveConnection
StreamConnect(w) ==
  /\ inv[w].pc = "sConnect"
  /\ \E timestamp \in StreamClock, put \in {"ok", "throws"} :
       LET i == [inv[w] EXCEPT !.calls.put = @ + 1]
       IN IF put = "ok"
          THEN /\ msgTable' = PutItem(msgTable, Item(timestamp, "system", "connected", FALSE, <<>>))
               /\ now' = timestamp
               /\ Status(w, [i EXCEPT !.wrote = TRUE], 200)
          ELSE /\ UNCHANGED <<msgTable, now>>
               /\ Rejected(w, i)
  /\ UNCHANGED <<revision, kb, limit, nreq, convTable, escTable, putLog>>
\* JSON.parse threw: the error event, then 400
StreamSendInvalidJson(w) ==
  /\ inv[w].pc = "sInvalidJson"
  /\ \E o \in SendOutcomes(inv[w]) :
       LET i == Log(inv[w], Payload("error", "Invalid JSON format"), o)
       IN IF sendToClientStream(o) = "thrown" THEN Rejected(w, i) ELSE Status(w, i, 400)
  /\ UNCHANGED <<revision, kb, limit, now, nreq, convTable, escTable, putLog, msgTable>>
\* no message, or only blanks: the error event, then 400
StreamSendRequired(w) ==
  /\ inv[w].pc = "sRequired"
  /\ \E o \in SendOutcomes(inv[w]) :
       LET i == Log(inv[w], Payload("error", "Please provide a message"), o)
       IN IF sendToClientStream(o) = "thrown" THEN Rejected(w, i) ELSE Status(w, i, 400)
  /\ UNCHANGED <<revision, kb, limit, now, nreq, convTable, escTable, putLog, msgTable>>
\* step 1: the input guardrail
StreamGuardInput(w) ==
  /\ inv[w].pc = "sGuardInput"
  /\ \E o \in GuardOutcomes :
       LET g == applyGuardrail(Trim(inv[w].body.message), o)
           i == [inv[w] EXCEPT !.guard = o, !.blocked = g.blocked, !.text = g.text,
                               !.calls.guardrail = @ + 1]
       IN Step(w, IF g.blocked THEN "sBlocked" ELSE "sSaveUser", i)
  /\ UNCHANGED <<revision, kb, limit, now, nreq, convTable, escTable, putLog, msgTable>>
\* blocked: the response event with blocked: true
StreamSendBlocked(w) ==
  /\ inv[w].pc = "sBlocked"
  /\ \E o \in SendOutcomes(inv[w]) :
       LET i == Log(inv[w], [Payload("response", inv[w].text) EXCEPT !.blocked = TRUE], o)
       IN IF sendToClientStream(o) = "thrown"
          THEN Step(w, "sCatch", [i EXCEPT !.err = SendError(o)])
          ELSE Step(w, "sBlockedSaveUser", i)
  /\ UNCHANGED <<revision, kb, limit, now, nreq, convTable, escTable, putLog, msgTable>>
\* saveMessage: the PutCommand is accepted or throws
SaveMessage(w, role, content, blocked, citations, next) ==
  \E timestamp \in StreamClock, put \in {"ok", "throws"} :
    LET i == [inv[w] EXCEPT !.calls.put = @ + 1]
    IN IF put = "ok"
       THEN /\ msgTable' = PutItem(msgTable, Item(timestamp, role, content, blocked, citations))
            /\ now' = timestamp
            /\ IF next = "return" THEN Status(w, [i EXCEPT !.wrote = TRUE], 200)
               ELSE Step(w, next, [i EXCEPT !.wrote = TRUE])
       ELSE /\ UNCHANGED <<msgTable, now>>
            /\ Step(w, "sCatch",
                    [i EXCEPT !.err = [name |-> "Error", message |-> "", from |-> "put"]])

\* blocked: the user message is saved
StreamBlockedSaveUser(w) ==
  /\ inv[w].pc = "sBlockedSaveUser"
  /\ SaveMessage(w, "user", Trim(inv[w].body.message), TRUE, <<>>, "sBlockedSaveAssistant")
  /\ UNCHANGED <<revision, kb, limit, nreq, convTable, escTable, putLog>>
\* blocked: the notice is saved, then 200
StreamBlockedSaveAssistant(w) ==
  /\ inv[w].pc = "sBlockedSaveAssistant"
  /\ SaveMessage(w, "assistant", inv[w].text, TRUE, <<>>, "return")
  /\ UNCHANGED <<revision, kb, limit, nreq, convTable, escTable, putLog>>
\* step 2: the user message is saved
StreamSaveUser(w) ==
  /\ inv[w].pc = "sSaveUser"
  /\ SaveMessage(w, "user", Trim(inv[w].body.message), FALSE, <<>>, "sTyping")
  /\ UNCHANGED <<revision, kb, limit, nreq, convTable, escTable, putLog>>
\* step 3: typing, status true
StreamSendTyping(w) ==
  /\ inv[w].pc = "sTyping"
  /\ \E o \in SendOutcomes(inv[w]) :
       LET i == Log(inv[w], TypingPayload(TRUE), o)
       IN IF sendToClientStream(o) = "thrown"
          THEN Step(w, "sCatch", [i EXCEPT !.err = SendError(o)])
          ELSE Step(w, "sRetrieve", i)
  /\ UNCHANGED <<revision, kb, limit, now, nreq, convTable, escTable, putLog, msgTable>>
\* step 4: retrieveFromKnowledgeBase; its catch logs the error and returns []
StreamRetrieve(w) ==
  /\ inv[w].pc = "sRetrieve"
  /\ \E o \in {"returns", "throws"} :
       LET retrievalResults == IF o = "returns" THEN kb ELSE <<>>
           i == [inv[w] EXCEPT !.calls.retrieve = @ + 1,
                               !.retrieval = IF o = "returns" THEN "returned" ELSE "threw",
                               !.context = buildContextFromRetrieval(retrievalResults),
                               !.result.citations = formatCitations(retrievalResults)]
       IN Step(w, "sHistory", i)
  /\ UNCHANGED <<revision, kb, limit, now, nreq, convTable, escTable, putLog, msgTable>>
\* step 5: getConversationHistory; the QueryCommand may throw
StreamHistory(w) ==
  /\ inv[w].pc = "sHistory"
  /\ \E o \in {"returns", "throws"} :
       IF o = "throws"
       THEN Step(w, "sCatch",
                 [inv[w] EXCEPT !.err = [name |-> "Error", message |-> "", from |-> "query"]])
       ELSE LET history == getConversationHistory(msgTable)
                i == [inv[w] EXCEPT !.history = history]
            IN Step(w, IF inv[w].body.useStreaming THEN "sConverse" ELSE "sRag", i)
  /\ UNCHANGED <<revision, kb, limit, now, nreq, convTable, escTable, putLog, msgTable>>

\* step 6, streaming: the messages are assembled and ConverseStream is called
StreamConverse(w) ==
  /\ inv[w].pc = "sConverse"
  /\ \E o \in {"returns", "throws"} :
       LET i == [inv[w] EXCEPT !.calls.generate = @ + 1, !.text = "",
                   !.messages = ConverseMessages(inv[w].history, Trim(inv[w].body.message))]
       IN IF o = "throws"
          THEN Step(w, "sCatch",
                    [i EXCEPT !.err = [name |-> "Error", message |-> "", from |-> "generate"]])
          ELSE Step(w, "sStream", i)
  /\ UNCHANGED <<revision, kb, limit, now, nreq, convTable, escTable, putLog, msgTable>>
\* mutant: the fragment joins fullResponse but is not forwarded
StreamChunkDropped(w) ==
  /\ inv[w].pc = "sStream"
  /\ inv[w].chunks < MaxChunks
  /\ Step(w, "sStream", [inv[w] EXCEPT !.chunks = @ + 1,
                                      !.text = @ \o ToString(inv[w].chunks + 1)])
  /\ UNCHANGED <<revision, kb, limit, now, nreq, convTable, escTable, putLog, msgTable>>

\* a contentBlockDelta: the fragment joins fullResponse and is forwarded
StreamChunk(w) ==
  /\ inv[w].pc = "sStream"
  /\ inv[w].chunks < MaxChunks
  /\ \E o \in SendOutcomes(inv[w]) :
       LET chunk == ToString(inv[w].chunks + 1)
           i == Log([inv[w] EXCEPT !.chunks = @ + 1, !.text = @ \o chunk],
                    StreamPayload(chunk, FALSE), o)
       IN IF sendToClientStream(o) = "thrown"
          THEN Step(w, "sCatch", [i EXCEPT !.err = SendError(o)])
          ELSE Step(w, "sStream", i)
  /\ UNCHANGED <<revision, kb, limit, now, nreq, convTable, escTable, putLog, msgTable>>
\* the stream throws while it is read
StreamBreaks(w) ==
  /\ inv[w].pc = "sStream"
  /\ Step(w, "sCatch",
          [inv[w] EXCEPT !.err = [name |-> "Error", message |-> "", from |-> "generate"]])
  /\ UNCHANGED <<revision, kb, limit, now, nreq, convTable, escTable, putLog, msgTable>>
\* messageStop: the stream is over; the completion marker is sent
StreamEnd(w) ==
  /\ inv[w].pc = "sStream"
  /\ \E stopReason \in {"end_turn", "guardrail_intervened"}, o \in SendOutcomes(inv[w]) :
       LET i == Log([inv[w] EXCEPT !.blocked = (stopReason = "guardrail_intervened")],
                    StreamPayload("", TRUE), o)
       IN IF sendToClientStream(o) = "thrown"
          THEN Step(w, "sCatch", [i EXCEPT !.err = SendError(o)])
          ELSE Step(w, "sSaveAssistant", i)
  /\ UNCHANGED <<revision, kb, limit, now, nreq, convTable, escTable, putLog, msgTable>>
\* what RetrieveAndGenerate names as citations: none, or one resting on the
\* passages found
ServiceCitations == {<<>>, <<kb>>}
\* step 6, not streaming: retrieveAndGenerate
StreamRetrieveAndGenerate(w) ==
  /\ inv[w].pc = "sRag"
  /\ \E o \in {"text", "empty", "throws"}, citations \in ServiceCitations :
       LET i == [inv[w] EXCEPT !.calls.generate = @ + 1]
       IN IF o = "throws"
          THEN /\ citations = <<>>
               /\ Step(w, "sCatch",
                       [i EXCEPT !.err = [name |-> "Error", message |-> "", from |-> "generate"]])
          ELSE Step(w, "sRagRespond",
                    [i EXCEPT !.text = IF o = "text" THEN "generated answer"
                                       ELSE "I could not generate a response.",
                              !.ragCitations = citations])
  /\ UNCHANGED <<revision, kb, limit, now, nreq, convTable, escTable, putLog, msgTable>>

\* not streaming: the response event, with the citations of the service
StreamRagRespond(w) ==
  /\ inv[w].pc = "sRagRespond"
  /\ \E o \in SendOutcomes(inv[w]) :
       LET i == Log(inv[w], [Payload("response", inv[w].text)
                               EXCEPT !.hasCitations = TRUE,
                                      !.citations = inv[w].ragCitations], o)
       IN IF sendToClientStream(o) = "thrown"
          THEN Step(w, "sCatch", [i EXCEPT !.err = SendError(o)])
          ELSE Step(w, "sGuardOutput", i)
  /\ UNCHANGED <<revision, kb, limit, now, nreq, convTable, escTable, putLog, msgTable>>
\* step 7, not streaming: the output guardrail
StreamGuardOutput(w) ==
  /\ inv[w].pc = "sGuardOutput"
  /\ \E o \in GuardOutcomes :
       LET g == applyGuardrail(inv[w].text, o)
           i == [inv[w] EXCEPT !.calls.guardrail = @ + 1,
                               !.text = IF g.blocked THEN g.text ELSE @,
                               !.blocked = g.blocked]
       IN Step(w, "sSaveAssistant", i)
  /\ UNCHANGED <<revision, kb, limit, now, nreq, convTable, escTable, putLog, msgTable>>
\* step 8: the assistant's response is saved
StreamSaveAssistant(w) ==
  /\ inv[w].pc = "sSaveAssistant"
  /\ SaveMessage(w, "assistant", inv[w].text, inv[w].blocked, inv[w].result.citations,
                 IF inv[w].body.useStreaming THEN "sRespond" ELSE "sTypingOff")
  /\ UNCHANGED <<revision, kb, limit, nreq, convTable, escTable, putLog>>
\* step 9, streaming: the final response event with the citations
StreamRespond(w) ==
  /\ inv[w].pc = "sRespond"
  /\ \E o \in SendOutcomes(inv[w]) :
       LET i == Log(inv[w], [Payload("response", inv[w].text)
                               EXCEPT !.hasCitations = TRUE,
                                      !.citations = inv[w].result.citations,
                                      !.blocked = inv[w].blocked], o)
       IN IF sendToClientStream(o) = "thrown"
          THEN Step(w, "sCatch", [i EXCEPT !.err = SendError(o)])
          ELSE Step(w, "sTypingOff", i)
  /\ UNCHANGED <<revision, kb, limit, now, nreq, convTable, escTable, putLog, msgTable>>
\* typing, status false, then 200
StreamTypingOff(w) ==
  /\ inv[w].pc = "sTypingOff"
  /\ \E o \in SendOutcomes(inv[w]) :
       LET i == Log(inv[w], TypingPayload(FALSE), o)
       IN IF sendToClientStream(o) = "thrown"
          THEN Step(w, "sCatch", [i EXCEPT !.err = SendError(o)])
          ELSE Status(w, i, 200)
  /\ UNCHANGED <<revision, kb, limit, now, nreq, convTable, escTable, putLog, msgTable>>
StreamErrorText == "Sorry, I encountered an error processing your request. Please try again."
\* the catch of handleSendMessage: the error event
StreamCatchError(w) ==
  /\ inv[w].pc = "sCatch"
  /\ \E o \in SendOutcomes(inv[w]) :
       LET i == Log(inv[w], Payload("error", StreamErrorText), o)
       IN IF sendToClientStream(o) = "thrown" THEN Rejected(w, i)
          ELSE Step(w, "sCatchTyping", i)
  /\ UNCHANGED <<revision, kb, limit, now, nreq, convTable, escTable, putLog, msgTable>>
\* the catch: typing, status false, then 500
StreamCatchTyping(w) ==
  /\ inv[w].pc = "sCatchTyping"
  /\ \E o \in SendOutcomes(inv[w]) :
       LET i == Log(inv[w], TypingPayload(FALSE), o)
       IN IF sendToClientStream(o) = "thrown" THEN Rejected(w, i) ELSE Status(w, i, 500)
  /\ UNCHANGED <<revision, kb, limit, now, nreq, convTable, escTable, putLog, msgTable>>
\* the streaming handler, one request at a time, over a table that is empty or
\* holds earlier turns
InitStream ==
  /\ revision = "streaming"
  /\ now = 0
  /\ nreq = 0
  /\ inv = [w \in Workers |-> Idle]
  /\ convTable = EmptyTable
  /\ escTable = {}
  /\ putLog = <<>>
  /\ msgTable \in {<<>>, PriorTurns(MaxPrior)}
  /\ kb = <<30, 51, 50, Undefined>>
  /\ limit = 1

NextStream ==
  \/ \E w \in Workers, ev \in StreamEvents : StreamHandler(w, ev)
  \/ \E w \in Workers : StreamConnect(w)
  \/ \E w \in Workers : StreamSendInvalidJson(w)
  \/ \E w \in Workers : StreamSendRequired(w)
  \/ \E w \in Workers : StreamGuardInput(w)
  \/ \E w \in Workers : StreamSendBlocked(w)
  \/ \E w \in Workers : StreamBlockedSaveUser(w)
  \/ \E w \in Workers : StreamBlockedSaveAssistant(w)
  \/ \E w \in Workers : StreamSaveUser(w)
  \/ \E w \in Workers : StreamSendTyping(w)
  \/ \E w \in Workers : StreamRetrieve(w)
  \/ \E w \in Workers : StreamHistory(w)
  \/ \E w \in Workers : StreamConverse(w)
  \/ \E w \in Workers : StreamChunk(w)
  \/ \E w \in Workers : StreamBreaks(w)
  \/ \E w \in Workers : StreamEnd(w)
  \/ \E w \in Workers : StreamRetrieveAndGenerate(w)
  \/ \E w \in Workers : StreamRagRespond(w)
  \/ \E w \in Workers : StreamGuardOutput(w)
  \/ \E w \in Workers : StreamSaveAssistant(w)
  \/ \E w \in Workers : StreamRespond(w)
  \/ \E w \in Workers : StreamTypingOff(w)
  \/ \E w \in Workers : StreamCatchError(w)
  \/ \E w \in Workers : StreamCatchTyping(w)
  \/ \E w \in Workers : Return(w)

SpecStream == InitStream /\ [][NextStream]_vars

\* ------------------------------------------------------------ the claims
IsSendMessage(i) ==
  /\ i.json # "malformed"
  /\ \/ i.route = "sendMessage"
     \/ i.route = "$default" /\ i.body.action = "sendMessage"
TerminalEvents(i) == {n \in 1..Len(i.sent) : Terminal(i.sent[n])}
Finished(i) == i.pc = "return"
Delivered(i, type) ==
  \E n \in 1..Len(i.sent) : i.sent[n].type = type /\ i.sent[n].outcome = "ok"

\* C1: every sendMessage invocation has sent exactly one terminal event
\* (type message or error) by the time it ends.
C1_ExactlyOneTerminalEvent ==
  \A w \in Workers :
    Finished(inv[w]) /\ IsSendMessage(inv[w]) =>
      Cardinality(TerminalEvents(inv[w])) = 1

Intervened(i) == i.guard \in {"GUARDRAIL_INTERVENED", "INTERVENED_NO_OUTPUT"}
SubstituteText(i) ==
  IF i.guard = "GUARDRAIL_INTERVENED" THEN "guardrail output"
  ELSE "I'm sorry, but I can't help with that request."
BlockedNotice(i, e) == e.type = "message" /\ e.blocked /\ e.text = SubstituteText(i)

AllBelowThreshold(scores) == \A n \in 1..Len(scores) : scores[n] < Threshold
Retrieved(i) == i.pc \in {"generate", "respond"} \/ i.result # NoResult
MessageEvents(i) ==
  {n \in 1..Len(i.sent) : i.sent[n].type = "message" /\ ~i.sent[n].blocked}

\* C3: in the two-step revision, when the largest retrieved score is below
\* 0.8 generateAnswer is never called, and every message event sent carries
\* the fixed fallback text and an empty citation list.
C3_LowConfidenceNeverGenerates ==
  \A w \in Workers :
    revision = "twostep" /\ AllBelowThreshold(kb) /\ Retrieved(inv[w]) =>
      /\ inv[w].calls.generate = 0
      /\ inv[w].pc # "generate"
      /\ \A n \in MessageEvents(inv[w]) :
           /\ inv[w].sent[n].text = LowConfidenceText
           /\ inv[w].sent[n].hasCitations /\ inv[w].sent[n].citations = <<>>

C3_Witness ==
  \E w \in Workers :
    /\ revision = "twostep" /\ AllBelowThreshold(kb) /\ Len(kb) > 0
    /\ Finished(inv[w]) /\ Delivered(inv[w], "message")
    /\ inv[w].calls.retrieve = 1

\* C4 as stated: in the rag revision no generation call is made for a
\* message whose result is gated as low confidence.
C4_RagGateBeforeGeneration ==
  \A w \in Workers :
    revision = "rag" /\ Retrieved(inv[w]) /\ AllBelowThreshold(inv[w].result.citations) =>
      inv[w].calls.generate = 0

\* C4 amended: in the rag revision the one RetrieveAndGenerate call, which
\* generates the answer, has always been made when the gate is evaluated;
\* for a result gated as low confidence the gate keeps the generated answer
\* and its citations from the client (fallback text, citations = []).
C4_RagGateAfterGeneration ==
  \A w \in Workers :
    revision = "rag" /\ Retrieved(inv[w]) /\ AllBelowThreshold(inv[w].result.citations) =>
      /\ inv[w].calls.generate = 1
      /\ \A n \in MessageEvents(inv[w]) :
           /\ inv[w].sent[n].text = LowConfidenceText
           /\ inv[w].sent[n].citations = <<>>

C4_Witness ==
  \E w \in Workers :
    /\ revision = "rag" /\ Finished(inv[w]) /\ Delivered(inv[w], "message")
    /\ inv[w].result.answer = "generated answer"
    /\ Len(inv[w].result.citations) > 0
    /\ AllBelowThreshold(inv[w].result.citations)

\* C5: when the moderation call throws, the message is treated as allowed,
\* with its text unchanged: the handler goes on to the knowledge base, and
\* any error event it sends comes from a later call, not from moderation.
C5_GuardrailFailsOpen ==
  \A w \in Workers :
    inv[w].guard = "throws" =>
      /\ ~inv[w].blocked
      /\ inv[w].text = inv[w].body.message
      /\ inv[w].pc \in {"query", "generate", "respond", "catch", "return"}
      /\ inv[w].pc # "query" => inv[w].calls.retrieve = 1
      /\ \A n \in 1..Len(inv[w].sent) :
           inv[w].sent[n].type = "error" =>
             inv[w].err.from \in {"retrieve", "generate", "send"}

C5_Witness ==
  \E w \in Workers :
    /\ inv[w].guard = "throws" /\ Finished(inv[w])
    /\ inv[w].status = 200
    /\ inv[w].calls.generate = 1
    /\ Delivered(inv[w], "message")

\* C6: a delivery that fails because the connection is gone (410) raises no
\* exception to the caller of sendToClient: the invocation neither ends in
\* a catch because of it nor fails with status 500.
C6_StaleDeliveryNeverRaises ==
  \A w \in Workers :
    Gone(inv[w]) => inv[w].err.from # "send" /\ inv[w].status # 500

\* the keys the conversation table was given by submitFeedback
KeysPut == {<<putLog[n].request.conversationId, putLog[n].timestamp>> : n \in 1..Len(putLog)}
ItemsOf(cid) == {k \in DOMAIN convTable : k[1] = cid}

\* C7: every item of the conversation table was put there by a
\* submitFeedback request and carries feedback 'pos' or 'neg'.
C7_OnlyFeedbackIsStored ==
  \A k \in DOMAIN convTable :
    /\ convTable[k].feedback \in {"pos", "neg"}
    /\ \E n \in 1..Len(putLog) :
         /\ putLog[n].request.action = "submitFeedback"
         /\ putLog[n].request.conversationId = k[1]
         /\ putLog[n].timestamp = k[2]

C7_Witness ==
  \E w \in Workers :
    /\ Finished(inv[w]) /\ IsSendMessage(inv[w]) /\ Delivered(inv[w], "message")
    /\ convTable # EmptyTable
    /\ \A k \in DOMAIN convTable : k[1] # inv[w].id

\* C8: no step of a sendMessage invocation changes the conversation table
\* or the escalation table.
C8_SendMessageWritesNothing ==
  [][\A w \in Workers :
       inv'[w] # inv[w] /\ (IsSendMessage(inv[w]) \/ IsSendMessage(inv'[w])) =>
         convTable' = convTable /\ escTable' = escTable]_vars

C8_Witness ==
  \E w \in Workers :
    /\ Finished(inv[w]) /\ IsSendMessage(inv[w])
    /\ \E n \in 1..Len(inv[w].sent) :
         /\ inv[w].sent[n].type = "message" /\ inv[w].sent[n].outcome = "ok"
         /\ inv[w].sent[n].conversationId = inv[w].id
    /\ escTable # {}

C10_RecordsNeverChange ==
  [][\A k \in DOMAIN convTable :
       k \in DOMAIN convTable' /\ convTable'[k] = convTable[k]]_vars

\* C10 amended: no step removes a record, and a step changes a record only
\* in two ways: a submitFeedback handled at the record's own timestamp
\* replaces it, and POST /feedback of the admin API rewrites feedback and
\* feedbackTs, and nothing else, on the earliest record of the conversation.
C10_OnlyFeedbackIsRewritten ==
  [][\A k \in DOMAIN convTable :
       /\ k \in DOMAIN convTable'
       /\ convTable'[k] # convTable[k] =>
            \/ /\ Len(putLog') = Len(putLog) + 1
               /\ k = <<putLog'[Len(putLog')].request.conversationId, now'>>
            \/ /\ putLog' = putLog
               /\ \A j \in ItemsOf(k[1]) : k[2] <= j[2]
               /\ convTable'[k].feedback \in {"pos", "neg"}
               /\ convTable'[k].feedbackTs = now'
               /\ convTable'[k] =
                    [convTable[k] EXCEPT !.feedback = convTable'[k].feedback,
                                         !.feedbackTs = convTable'[k].feedbackTs]]_vars

C10_Witness ==
  \E k \in DOMAIN convTable :
    /\ convTable[k].feedbackTs # convTable[k].timestamp
    /\ convTable[k].feedback = "pos"
    /\ putLog[1].request.feedback = "negative"

\* C11 as stated: a terminal event of a sendMessage invocation is the second
\* event sent, after the typing event, and the last one.
C11_TypingThenOneTerminal ==
  \A w \in Workers :
    IsSendMessage(inv[w]) =>
      \A n \in 1..Len(inv[w].sent) :
        Terminal(inv[w].sent[n]) =>
          n = 2 /\ inv[w].sent[1].type = "typing" /\ Len(inv[w].sent) = 2

\* C11 amended: for a sendMessage with a message text the typing event is
\* the first event sent and every later event is terminal; nothing follows a
\* terminal event except the error event of the catch, sent after a
\* 'message' event whose delivery threw.  With no message text the one event
\* sent is the error 'Message is required', with no typing event before it.
C11_TypingFirstUnlessEmpty ==
  \A w \in Workers :
    IsSendMessage(inv[w]) =>
      LET sent == inv[w].sent
      IN IF inv[w].body.message = ""
           THEN /\ Len(sent) <= 1
                /\ Len(sent) = 1 =>
                     sent[1].type = "error" /\ sent[1].text = "Message is required"
         ELSE /\ Len(sent) >= 1 => sent[1].type = "typing"
              /\ Len(sent) >= 2 => sent[1].outcome = "ok"
              /\ \A n \in 2..Len(sent) : Terminal(sent[n])
              /\ Len(sent) <= 3
              /\ Len(sent) = 3 =>
                   /\ sent[2].type = "message" /\ sent[2].outcome # "ok"
                   /\ sent[3].type = "error"

C11_Witness ==
  \E w \in Workers :
    /\ Finished(inv[w]) /\ IsSendMessage(inv[w]) /\ Len(inv[w].sent) = 2
    /\ inv[w].sent[1].type = "typing" /\ inv[w].sent[1].outcome = "ok"
    /\ inv[w].sent[2].type = "message" /\ inv[w].sent[2].outcome = "ok"
    /\ inv[w].sent[2].text = "generated answer"

\* C12: the error event sent after a retrieval or generation failure is
\* chosen by the kind of the failure alone: a failure of the same kind with
\* any other raw error.message gives the very same payload.
C12_ErrorPayloadByKindOnly ==
  \A w \in Workers :
    IsSendMessage(inv[w]) /\ inv[w].err.from \in {"retrieve", "generate"} =>
      \A n \in 1..Len(inv[w].sent) :
        inv[w].sent[n].type = "error" =>
          \A e \in ServiceErrors(inv[w].err.from) :
            e.name = inv[w].err.name =>
              [ErrorPayload(e) EXCEPT !.outcome = inv[w].sent[n].outcome] = inv[w].sent[n]

\* the search service returned a passage scoring 0.8 or more
SomeAtThreshold(raw) ==
  \E n \in 1..Len(raw) : raw[n] # Undefined /\ raw[n] >= Threshold

\* C13: in the two-step revision, once retrieval has returned, generation
\* proceeds exactly when some retrieved passage scores 0.8 or more (an
\* absent score counting as 0): a maximum of exactly 0.8 proceeds, and no
\* passage at all never proceeds.
C13_GateIsMaxAtLeastThreshold ==
  \A w \in Workers :
    revision = "twostep" /\ IsSendMessage(inv[w]) /\ Retrieved(inv[w]) =>
      /\ (inv[w].pc = "generate" \/ inv[w].calls.generate > 0) <=> SomeAtThreshold(kb)
      /\ inv[w].result.low <=> ~SomeAtThreshold(kb)
      /\ kb = <<>> => inv[w].calls.generate = 0 /\ inv[w].pc # "generate"

C13_Witness ==
  \E w \in Workers :
    /\ revision = "twostep" /\ IsSendMessage(inv[w])
    /\ kb # <<>> /\ \A n \in 1..Len(kb) : kb[n] <= Threshold
    /\ inv[w].calls.generate = 1 /\ Delivered(inv[w], "message")

\* C14: on the generation path of the two-step revision the message event
\* carries one citation per retrieved passage, in the order the search
\* service returned them, each with the score it was returned with (0 for a
\* passage returned without a score).
C14_CitationsAreTheRetrievedPassages ==
  \A w \in Workers :
    revision = "twostep" /\ IsSendMessage(inv[w]) =>
      \A n \in 1..Len(inv[w].sent) :
        LET e == inv[w].sent[n]
        IN e.type = "message" /\ ~e.blocked /\ ~e.lowConfidence =>
             /\ Len(e.citations) = Len(kb)
             /\ \A p \in 1..Len(kb) :
                  e.citations[p] = IF kb[p] = Undefined THEN 0 ELSE kb[p]

C14_Witness ==
  \E w \in Workers :
    /\ revision = "twostep" /\ IsSendMessage(inv[w]) /\ Finished(inv[w])
    /\ Len(kb) = 2 /\ kb[1] # Undefined /\ kb[1] < kb[2]
    /\ \E n \in 1..Len(inv[w].sent) :
         /\ inv[w].sent[n].type = "message" /\ inv[w].sent[n].outcome = "ok"
         /\ inv[w].sent[n].citations = kb

IsSubmitFeedback(i) ==
  /\ i.json # "malformed"
  /\ \/ i.route = "submitFeedback"
     \/ i.route = "$default" /\ i.body.action = "submitFeedback"

\* C15: the record a submitFeedback request has written holds 'pos' for
\* feedback 'positive' and 'neg' for feedback 'negative', and the
\* feedbackConfirmation carries the conversationId and the feedback value as
\* they were submitted.
C15_FeedbackStoredAbbreviated ==
  \A w \in Workers :
    IsSubmitFeedback(inv[w]) =>
      /\ inv[w].wrote =>
           LET b == inv[w].body
               k == <<b.conversationId, putLog[Len(putLog)].timestamp>>
           IN /\ k \in DOMAIN convTable
              /\ b.feedback = "positive" => convTable[k].feedback = "pos"
              /\ b.feedback = "negative" => convTable[k].feedback = "neg"
      /\ \A n \in 1..Len(inv[w].sent) :
           inv[w].sent[n].type = "feedbackConfirmation" =>
             /\ inv[w].sent[n].conversationId = inv[w].body.conversationId
             /\ inv[w].sent[n].feedback = inv[w].body.feedback

C15_Witness ==
  \E w \in Workers :
    /\ IsSubmitFeedback(inv[w]) /\ Finished(inv[w]) /\ inv[w].wrote
    /\ inv[w].body.feedback = "positive"
    /\ Delivered(inv[w], "feedbackConfirmation")
    /\ \E k \in DOMAIN convTable :
         k[1] = inv[w].body.conversationId /\ convTable[k].feedback = "pos"

Confirmations(i) == {n \in 1..Len(i.sent) : i.sent[n].type = "feedbackConfirmation"}

\* C16: a feedbackConfirmation is sent only once the record has been
\* written; with conversationId or feedback missing no write is attempted;
\* and when the write throws, the event sent is the error 'Failed to save
\* feedback' and no confirmation.
C16_ConfirmationOnlyAfterWrite ==
  \A w \in Workers :
    IsSubmitFeedback(inv[w]) =>
      /\ Confirmations(inv[w]) # {} => inv[w].wrote /\ inv[w].calls.put = 1
      /\ inv[w].body.conversationId = 0 \/ inv[w].body.feedback = "" =>
           inv[w].calls.put = 0 /\ ~inv[w].wrote /\ Confirmations(inv[w]) = {}
      /\ inv[w].err.from = "put" =>
           /\ ~inv[w].wrote /\ Confirmations(inv[w]) = {}
           /\ Finished(inv[w]) =>
                /\ Len(inv[w].sent) = 1
                /\ inv[w].sent[1].type = "error"
                /\ inv[w].sent[1].text = "Failed to save feedback"

C16_Witness ==
  \E w \in Workers :
    /\ IsSubmitFeedback(inv[w]) /\ Finished(inv[w]) /\ inv[w].err.from = "put"
    /\ Delivered(inv[w], "error")

IsSubmitEscalation(i) ==
  /\ i.json # "malformed"
  /\ \/ i.route = "submitEscalation"
     \/ i.route = "$default" /\ i.body.action = "submitEscalation"
EscalationFieldsMissing(i) == ~i.body.name \/ ~i.body.email \/ ~i.body.question
\* the records of the escalation table that carry the escalationId of i
EscalationsOf(i) == {r \in escTable : r.escalationId = i.id}
EscalationConfirmed(i) ==
  \A n \in 1..Len(i.sent) :
    i.sent[n].type = "escalationConfirmation" => i.sent[n].escalationId = i.id

\* C17 as stated: a submitEscalation with a required field missing sends an
\* error event and writes nothing; every other one has written exactly one
\* record, status 'pending', by the time it ends, and its confirmation
\* carries the escalationId of that record.
C17_EscalationAlwaysWritten ==
  \A w \in Workers :
    IsSubmitEscalation(inv[w]) /\ Finished(inv[w]) =>
      IF EscalationFieldsMissing(inv[w])
        THEN /\ EscalationsOf(inv[w]) = {} /\ inv[w].calls.put = 0
             /\ Len(inv[w].sent) = 1 /\ inv[w].sent[1].type = "error"
      ELSE /\ Cardinality(EscalationsOf(inv[w])) = 1
           /\ \A r \in EscalationsOf(inv[w]) : r.status = "pending"
           /\ EscalationConfirmed(inv[w])

\* C17 amended: with a required field missing the error event is sent and
\* nothing is written; otherwise one write is attempted: if it succeeds
\* exactly one record, status 'pending', carries the escalationId generated
\* for the request and the confirmation sent afterwards carries the same id;
\* if it throws nothing is written, no confirmation is sent and the event
\* sent is the error 'Failed to submit support request'.
C17_EscalationWrittenUnlessPutThrows ==
  \A w \in Workers :
    IsSubmitEscalation(inv[w]) /\ Finished(inv[w]) =>
      IF EscalationFieldsMissing(inv[w])
        THEN /\ EscalationsOf(inv[w]) = {} /\ inv[w].calls.put = 0
             /\ Len(inv[w].sent) = 1 /\ inv[w].sent[1].type = "error"
      ELSE /\ inv[w].calls.put = 1
           /\ IF inv[w].err.from = "put"
                THEN /\ EscalationsOf(inv[w]) = {}
                     /\ Len(inv[w].sent) = 1 /\ inv[w].sent[1].type = "error"
                     /\ inv[w].sent[1].text = "Failed to submit support request"
              ELSE /\ Cardinality(EscalationsOf(inv[w])) = 1
                   /\ \A r \in EscalationsOf(inv[w]) : r.status = "pending"
                   /\ Len(inv[w].sent) >= 1
                   /\ inv[w].sent[1].type = "escalationConfirmation"
                   /\ EscalationConfirmed(inv[w])

C17_Witness ==
  \E w \in Workers :
    /\ IsSubmitEscalation(inv[w]) /\ Finished(inv[w]) /\ inv[w].id = 2
    /\ Delivered(inv[w], "escalationConfirmation")
    /\ Cardinality(escTable) = 2

NamedFailures ==
  {"AccessDeniedException", "ResourceNotFoundException", "ValidationException",
   "ThrottlingException"}
GenericErrorText == "An error occurred while processing your request. Please try again."
\* the error events the catch of handleSendMessage has sent
CatchEvents(i) ==
  {n \in 1..Len(i.sent) : i.sent[n].type = "error" /\ i.err # NoErr}

\* C18: the error event sent for a failure named AccessDeniedException,
\* ResourceNotFoundException, ValidationException or ThrottlingException
\* carries a text no failure of another name is given, and the event sent
\* for any other failure carries the one generic text.
C18_ErrorTextsDistinctByKind ==
  \A w \in Workers :
    IsSendMessage(inv[w]) =>
      \A n \in CatchEvents(inv[w]) :
        LET name == inv[w].err.name
            text == inv[w].sent[n].text
        IN /\ name \in NamedFailures =>
                /\ text # GenericErrorText
                /\ \A other \in NamedFailures \ {name}, m \in {"detail one", "detail two"} :
                     ErrorPayload([name |-> other, message |-> m, from |-> "retrieve"]).text
                       # text
           /\ name \notin NamedFailures => text = GenericErrorText

C18_Witness ==
  \E w \in Workers :
    /\ IsSendMessage(inv[w]) /\ inv[w].err.name = "ThrottlingException"
    /\ \E n \in CatchEvents(inv[w]) :
         /\ inv[w].sent[n].outcome = "ok"
         /\ inv[w].sent[n].text = "Service is busy. Please try again in a moment."

\* the invocation in environment w has started and has not returned yet
Running(w) == inv[w].pc \notin {"idle", "return"}

\* C19: two sendMessage invocations running at once are not serialized and
\* share no state: whatever the other invocation is doing, a running
\* invocation can take its next step, and that step changes nothing but the
\* invocation's own record.
C19_InvocationsNeverWait ==
  /\ [](\A w \in Workers : Running(w) => ENABLED SendMessageStep(w))
  /\ [][\A w \in Workers :
          Running(w) /\ inv'[w] # inv[w] =>
            /\ \A v \in Workers \ {w} : inv'[v] = inv[v]
            /\ UNCHANGED <<revision, kb, now, nreq, convTable, escTable, putLog, msgTable>>]_vars

\* the answer to the later request has been delivered while the earlier
\* request is still about to send its own
C19_Witness ==
  \E w, v \in Workers :
    /\ IsSendMessage(inv[w]) /\ IsSendMessage(inv[v]) /\ inv[w].id < inv[v].id
    /\ inv[w].pc = "respond" /\ TerminalEvents(inv[w]) = {}
    /\ inv[v].pc = "return" /\ Delivered(inv[v], "message")

\* C20: an exception of the retrieval call ends the message with an 'error'
\* event; generation is never called after a retrieval that failed.
C20_FailedRetrievalEndsInError ==
  \A w \in Workers :
    inv[w].retrieval = "threw" =>
      /\ inv[w].calls.generate = 0
      /\ inv[w].pc = "return" =>
           \E n \in 1..Len(inv[w].sent) : inv[w].sent[n].type = "error"

\* ------------------------------------------- claims on the streaming handler
\* the input guardrail blocked the message of this invocation
InputBlocked(i) == i.pc \in {"sBlockedSaveUser", "sBlockedSaveAssistant"}
                     \/ (Intervened(i) /\ i.pc = "return")

\* C21: in the streaming handler a message blocked by the input guardrail is
\* not persisted: once the blocked notice is sent the invocation makes no put
\* and writes no item to the conversation table.
C21_BlockedIsNotPersisted ==
  \A w \in Workers :
    InputBlocked(inv[w]) => inv[w].calls.put = 0 /\ ~inv[w].wrote

\* the stream events of an invocation, in the order they were sent
StreamSent(i) == SelectSeq(i.sent, LAMBDA e : e.type = "stream")
Fragments(i) == SelectSeq(StreamSent(i), LAMBDA e : ~e.isComplete)
Markers(i) == SelectSeq(StreamSent(i), LAMBDA e : e.isComplete)
\* the model stream of the invocation has ended and the handler has gone on
StreamEnded(i) ==
  i.body.useStreaming /\ i.pc \in {"sSaveAssistant", "sRespond", "sTypingOff"}

\* C22: in streaming mode every text fragment read from the generator is
\* forwarded, in arrival order, as a stream event that is not complete; one
\* empty fragment marked complete is sent after the last text fragment when
\* the stream ended, and none when the stream or the forwarding of a fragment
\* threw; without streaming no stream event is sent.
C22_FragmentsThenOneMarker ==
  \A w \in Workers :
    LET i == inv[w]
        s == StreamSent(i)
    IN /\ Len(Fragments(i)) = i.chunks
       /\ \A k \in 1..Len(Fragments(i)) : Fragments(i)[k].chunk = ToString(k)
       /\ Len(Markers(i)) <= 1
       /\ \A k \in 1..Len(s) : s[k].isComplete => k = Len(s) /\ s[k].chunk = ""
       /\ StreamEnded(i) => Len(Markers(i)) = 1
       /\ i.err.from = "generate" => Len(Markers(i)) = 0
       /\ (\E k \in 1..Len(Fragments(i)) : Fragments(i)[k].outcome = "failed")
            => Len(Markers(i)) = 0
       /\ ~i.body.useStreaming => s = <<>>
C22_Witness ==
  \E w \in Workers :
    /\ inv[w].pc = "sSaveAssistant"
    /\ inv[w].chunks = MaxChunks
    /\ Len(Markers(inv[w])) = 1
    /\ inv[w].text = "12"

\* the terminal events of the streaming handler: type response or error
StreamTerminalEvents(i) ==
  {n \in 1..Len(i.sent) : i.sent[n].type \in {"response", "error"}}
NonEmptySendMessage(i) ==
  i.route \in {"sendMessage", "$default"} /\ i.json = "object"
    /\ Trim(i.body.message) # ""

\* C23: in the streaming handler every sendMessage with a non-empty message
\* has sent exactly one terminal event (type response or error) by the time
\* it ends, with or without streaming and whichever step fails.
C23_OneTerminalEventPerMessage ==
  \A w \in Workers :
    Finished(inv[w]) /\ NonEmptySendMessage(inv[w]) =>
      Cardinality(StreamTerminalEvents(inv[w])) = 1

\* ------------------------------------------------ claims on the admin API
\* an admin POST /feedback that has answered with the given status
AdminFeedbackAnswered(i, status) ==
  i.pc = "return" /\ i.route = "POST /feedback" /\ i.status = status

\* C24: POST /feedback takes the value in either form: after a 200 the record
\* of the conversation carries 'pos' for 'positive' or 'pos', and 'neg' for
\* 'negative' or 'neg'.
C24_EitherFormIsRecorded ==
  \A w \in Workers :
    AdminFeedbackAnswered(inv[w], 200) =>
      LET b == inv[w].body
          item == convTable[FirstItem(convTable, b.conversationId)]
      IN /\ b.feedback \in {"positive", "pos"} => item.feedback = "pos"
         /\ b.feedback \in {"negative", "neg"} => item.feedback = "neg"

\* an admin DELETE /escalations/{id} that has answered
DeleteAnswered(i) == i.pc = "return" /\ i.route = "DELETE /escalations/{id}"

\* C25: DELETE /escalations/{id} answers 200 when the escalation existed and
\* was deleted, 404 when no escalation has that id (nothing is changed), and
\* 500 when the store operation failed.
C25_DeleteAnswersByOutcome ==
  \A w \in Workers :
    DeleteAnswered(inv[w]) =>
      LET i == inv[w]
          left == {r \in escTable : r.escalationId = i.pathId}
      IN /\ i.err # NoErr => i.status = 500
         /\ i.status = 200 => i.wrote /\ left = {}
         /\ i.status = 404 => ~i.wrote /\ left = {}

\* ------------------------------------------- claims on index.js, continued
NoServiceCall(i) ==
  i.calls.guardrail = 0 /\ i.calls.retrieve = 0 /\ i.calls.generate = 0

\* C26: a sendMessage whose message is empty or missing is rejected at once:
\* the one event sent for it is the error 'Message is required', and no
\* guardrail, retrieval or generation call is made.
C26_EmptyMessageIsRejected ==
  \A w \in Workers :
    LET i == inv[w]
    IN IsSendMessage(i) /\ i.body.message = "" /\ i.pc # "idle" =>
         /\ NoServiceCall(i)
         /\ i.pc \in {"required", "return"}
         /\ i.pc = "required" => i.sent = <<>>
         /\ i.pc = "return" =>
              /\ Len(i.sent) = 1
              /\ i.sent[1].type = "error"
              /\ i.sent[1].text = "Message is required"
C26_Witness ==
  \E w \in Workers :
    /\ IsSendMessage(inv[w]) /\ inv[w].json = "absent" /\ inv[w].pc = "return"
    /\ Len(inv[w].sent) = 1
    /\ inv[w].sent[1].text = "Message is required"
    /\ inv[w].sent[1].outcome = "ok"

\* the states of the orchestration, in the order the handler passes them:
\* RECEIVED, GUARD_CHECKING, RETRIEVING (or the blocked notice), GENERATING,
\* RESPONDING, ERROR, and the return of the handler (DONE or failed)
Rank(pc) ==
  CASE pc = "idle" -> 0
    [] pc \in {"required", "typing"} -> 1
    [] pc = "guard" -> 2
    [] pc \in {"blocked", "query"} -> 3
    [] pc = "generate" -> 4
    [] pc = "respond" -> 5
    [] pc = "catch" -> 6
    [] OTHER -> 7
Terminates == \A w \in Workers : Running(w) ~> (inv[w].pc = "return")
ForwardOnly ==
  [][\A w \in Workers :
       inv'[w].pc # inv[w].pc /\ inv[w].pc # "return" =>
         Rank(inv'[w].pc) > Rank(inv[w].pc)]_vars
ModelCallsAtMostOnce ==
  \A w \in Workers :
    inv[w].calls.guardrail <= 1 /\ inv[w].calls.retrieve <= 1 /\ inv[w].calls.generate <= 1

\* C27 as stated: every sendMessage invocation terminates, moves only forward
\* through its states, and calls each external service (guardrail, retrieval,
\* generation, connection send) at most once.
C27_TerminatesCallingEachOnce ==
  /\ Terminates
  /\ ForwardOnly
  /\ [](ModelCallsAtMostOnce /\ \A w \in Workers : Len(inv[w].sent) <= 1)
\* C27, amended: every sendMessage invocation terminates, moves only forward
\* through its states, and calls the guardrail, the retriever and the
\* generator at most once each; the connection is sent to at most three times
\* (typing indicator, terminal event, error event).
C27_TerminatesForwardNoRetry ==
  /\ Terminates
  /\ ForwardOnly
  /\ [](ModelCallsAtMostOnce /\ \A w \in Workers : Len(inv[w].sent) <= 3)
C27_Witness ==
  \E w \in Workers :
    /\ inv[w].pc = "return" /\ inv[w].status = 200
    /\ inv[w].calls.guardrail = 1 /\ inv[w].calls.retrieve = 1
    /\ inv[w].calls.generate = 1
    /\ Len(inv[w].sent) = 2

\* ------------------------------ claims on the streaming handler, continued
\* the message of the current turn, as the generator is given it
CurrentMessage(i) == [role |-> "user", content |-> Trim(i.body.message)]
\* ConverseStream has been called for this invocation
Conversed(i) == i.body.useStreaming /\ i.calls.generate = 1

\* C28: the messages passed to the streaming generator are at most 6 earlier
\* user/assistant turns, oldest first, followed by the current user message,
\* and the current user message is in the list exactly once.
C28_CurrentMessageOnce ==
  \A w \in Workers :
    Conversed(inv[w]) =>
      LET m == inv[w].messages
      IN /\ Len(m) <= HistoryWindow + 1
         /\ m[Len(m)] = CurrentMessage(inv[w])
         /\ Cardinality({k \in 1..Len(m) : m[k] = CurrentMessage(inv[w])}) = 1

\* ------------------------------------------- claims on index.js, concluded
\* a frame of the WebSocket API whose body is not valid JSON
MalformedFrame(i) ==
  /\ i.json = "malformed"
  /\ i.route \in {"sendMessage", "submitFeedback", "submitEscalation", "$default"}

\* C29: a frame on the sendMessage, submitFeedback, submitEscalation or
\* $default route whose body is not valid JSON makes the handler return 500
\* having sent no event, called no managed service and written no record.
C29_MalformedFrameReturns500 ==
  /\ [](\A w \in Workers :
          MalformedFrame(inv[w]) =>
            /\ inv[w].pc = "return" /\ inv[w].status = 500
            /\ inv[w].sent = <<>>
            /\ NoServiceCall(inv[w]) /\ inv[w].calls.put = 0
            /\ ~inv[w].wrote)
  /\ [][\A w \in Workers :
          MalformedFrame(inv'[w]) /\ inv[w].pc = "idle" =>
            UNCHANGED <<convTable, escTable, putLog, now>>]_vars
C29_Witness ==
  \E w \in Workers :
    /\ inv[w].json = "malformed" /\ inv[w].route = "$default"
    /\ inv[w].pc = "return" /\ inv[w].status = 500
    /\ convTable # EmptyTable

\* a submitFeedback with both fields whose PutCommand has been answered
FeedbackPutAnswered(i) ==
  /\ IsSubmitFeedback(i)
  /\ i.body.conversationId # 0 /\ i.body.feedback # ""
  /\ i.pc \in {"fbConfirm", "fbCatch", "return"}

\* C30: submitFeedback writes a record for any non-empty conversationId
\* without consulting what the server holds: unless the PutCommand itself
\* throws, a record of that conversationId is stored, whether or not a
\* sendMessage response ever issued that id.
C30_FeedbackStoredForAnyId ==
  \A w \in Workers :
    FeedbackPutAnswered(inv[w]) /\ inv[w].err.from # "put" =>
      /\ inv[w].wrote /\ inv[w].calls.put = 1
      /\ ItemsOf(inv[w].body.conversationId) # {}
\* the first request ever is a submitFeedback naming id 2, which no response
\* has issued, and its record is stored
C30_Witness ==
  \E w \in Workers :
    /\ nreq = 1 /\ inv[w].id = 1
    /\ FeedbackPutAnswered(inv[w]) /\ inv[w].body.conversationId = 2
    /\ ItemsOf(2) # {}

====
